---- MODULE Spec2Model ----
(***************************************************************************)
(* Model of the APG package installer (src/src/installer.py): the batch    *)
(* worker InstallerThread.run, the per-package pipeline                    *)
(* Installer.install_package and the steps it sequences, acting on a       *)
(* temporary workspace, a target root and a backup directory.              *)
(*                                                                         *)
(* File trees are functions from a small universe of relative paths to a   *)
(* node: "absent", "dir", or the content of a regular file.  Lifecycle     *)
(* scripts are external processes; they are assumed not to touch the       *)
(* modelled paths, only to exit with a status.                             *)
(***************************************************************************)
EXTENDS Integers, Sequences, FiniteSets, TLC

VARIABLES
    packages,     \* self.packages: the archive found at each supplied path, in order
    i,            \* enumerate index of the package being / last processed
    success,      \* local "success" of InstallerThread.run
    pc,           \* position of the worker thread
    package,      \* the Package object of the current install_package call
    ws,           \* content of the current package's workspace on disk
    tmp,          \* workspace directories that exist on disk (by package index)
    root,         \* tree under Installer.system_root
    backup_dir,   \* archives under Installer.backup_dir
    clock,        \* datetime.now(), in seconds
    err,          \* exception in flight in install_package ("none" if none)
    result,       \* how install_package ended: "none", "True", "raised"
    events,       \* progress_updated / log_message emissions of the current package
    steps,        \* pipeline steps invoked for the current package, with outcome
    attempted,    \* package indices handed to install_package, in call order
    errors,       \* logging.error records written by InstallerThread.run
    signals,      \* installation_completed / installation_failed emissions
    rootBefore,   \* target root when the current install_package call began
    backup_path,  \* backup file written by the current package (<<>> if none)
    outcomes,     \* how each install_package call ended, in call order
    procs,        \* script processes started for the current package, in order
    window,       \* the MainWindow: its timer, buttons, self.thread, log, open dialogs
    threads,      \* the InstallerThread objects start_install has created, in order
    posted,       \* terminal signals queued for the GUI thread, not yet delivered
    euid,         \* os.geteuid() of the process
    argv,         \* sys.argv[1:]: the file names given on the command line
    files,        \* what is on disk at each name when main runs
    mainpc,       \* position of main
    visited,      \* paths the loop of validate_packages has handled
    valid_packages, \* local "valid_packages" of validate_packages
    returned,     \* value main returned ("none" while it has not)
    started       \* batches handed to an InstallerThread, in order

vars == <<packages, i, success, pc, package, ws, tmp, root, backup_dir, clock,
          err, result, events, steps, attempted, errors, signals, rootBefore,
          backup_path, outcomes, procs, window, threads, posted, euid, argv,
          files, mainpc, visited, valid_packages, returned, started>>

\* the state of main
entry == <<euid, argv, files, mainpc, visited, valid_packages, returned, started>>

\* the state of the window and of the threads it starts
gui == <<window, threads, posted>>

\* the state of one InstallerThread.run
worker == <<packages, i, success, pc, package, ws, tmp, root, backup_dir, clock,
            err, result, events, steps, attempted, errors, signals, rootBefore,
            backup_path, outcomes, procs>>

----------------------------------------------------------------------------
(* Bounds *)

MaxBatch == 2     \* packages in one batch
MaxClock == 1     \* seconds the clock may advance during a run
MaxSums  == 1     \* well-formed lines in an md5sums file
MaxDeps  == 2     \* entries of metadata["dependencies"]
MaxArgs  == 2     \* paths on the command line

----------------------------------------------------------------------------
(* File trees *)

Paths    == {"a", "a/a", "b"}
Contents == {"v1", "v2"}
Hashes   == {"h1", "h2"}

\* hashlib.md5(content).hexdigest()
MD5(c) == IF c = "v1" THEN "h1" ELSE "h2"

Nodes == {"absent", "dir"} \cup Contents

\* "a/a" lies in directory "a"; "a" and "b" lie directly under the tree's top
HasParent(p) == p = "a/a"
Parent(p)    == "a"
\* dst / src.name for a destination that is a directory
Inside(p)    == "a/a"

Trees == {t \in [Paths -> Nodes] :
            /\ t["b"] # "dir"
            /\ t["a/a"] # "dir"
            /\ (t["a/a"] # "absent" => t["a"] = "dir")}

EmptyTree == [p \in Paths |-> "absent"]

\* Path.is_file()
IsFile(t, p) == t[p] \in Contents
\* Path.exists()
Exists(t, p) == t[p] # "absent"
\* [src for src in dir.rglob("*") if src.is_file()]
RegularFiles(t) == {p \in Paths : IsFile(t, p)}

\* rglob yields siblings in directory order, which is arbitrary
Orders(S) == {o \in [1..Cardinality(S) -> S] :
                \A m, n \in 1..Cardinality(S) : m # n => o[m] # o[n]}

----------------------------------------------------------------------------
(* Package archives: the content of one .apg file *)

\* entries of metadata["dependencies"]; cond "" means the key is absent
Deps == { [name |-> "libx", cond |-> "==", hasVersion |-> TRUE],
          [name |-> "libx", cond |-> "",   hasVersion |-> TRUE],
          [name |-> "libx", cond |-> "",   hasVersion |-> FALSE] }

SeqsUpTo(S, n) == UNION {[1..k -> S] : k \in 0..n}

\* metadata as loaded by json.load; {} is a dict without keys
EmptyMeta == [kind |-> "dict", hasName |-> FALSE, name |-> "",
              hasDeps |-> FALSE, deps |-> <<>>]
NamedMeta(n) == [EmptyMeta EXCEPT !.hasName = TRUE, !.name = n]

\* script files: absent, or present and exiting 0, exiting non-zero, or not executable
Scripts == {"absent", "exit0", "exit1", "noexec"}

\* a well-formed package without optional parts
Plain == [readable  |-> TRUE,
          metaFile  |-> "json",         \* "absent", "badjson" or "json"
          meta      |-> NamedMeta("p"),
          hasSums   |-> FALSE,          \* md5sums file present
          sums      |-> <<>>,           \* its well-formed lines <<path, hash>>
          badLine   |-> FALSE,          \* a line without the two-space separator follows
          hasData   |-> FALSE,          \* data/ present
          data      |-> EmptyTree,
          pre       |-> "absent",
          post      |-> "absent"]

\* a directory that holds nothing (a workspace before or during extraction)
EmptyDir == [Plain EXCEPT !.metaFile = "absent", !.meta = EmptyMeta]

WithData(ar, t) == [ar EXCEPT !.hasData = TRUE, !.data = t]

\* archives that fail in Package.extract, or carry metadata of an unexpected shape
BrokenArchives ==
    { [Plain EXCEPT !.readable = FALSE],
      [Plain EXCEPT !.metaFile = "absent", !.meta = EmptyMeta],
      [Plain EXCEPT !.metaFile = "badjson", !.meta = EmptyMeta],
      [Plain EXCEPT !.meta = EmptyMeta],
      [Plain EXCEPT !.meta = [EmptyMeta EXCEPT !.kind = "list"]],
      [Plain EXCEPT !.meta = [EmptyMeta EXCEPT !.kind = "scalar"]],
      [Plain EXCEPT !.hasSums = TRUE, !.badLine = TRUE] }

SumLines == Paths \X Hashes

ChecksumArchives ==
    { [WithData(Plain, t) EXCEPT !.hasSums = TRUE, !.sums = s, !.badLine = b] :
        t \in Trees, s \in SeqsUpTo(SumLines, MaxSums), b \in BOOLEAN }

DependencyArchives ==
    { [Plain EXCEPT !.meta = [NamedMeta("p") EXCEPT !.hasDeps = TRUE, !.deps = d]] :
        d \in SeqsUpTo(Deps, MaxDeps) }

PayloadArchives ==
    { [WithData(Plain, t) EXCEPT !.pre = s1, !.post = s2] :
        t \in Trees, s1 \in Scripts, s2 \in Scripts }
    \cup { [Plain EXCEPT !.pre = s1, !.post = s2] : s1 \in Scripts, s2 \in Scripts }

AllArchives ==
    BrokenArchives \cup ChecksumArchives \cup DependencyArchives \cup PayloadArchives

\* one archive per way a package can end, for batches of several packages
FileA(c) == [EmptyTree EXCEPT !["a"] = c]
BatchArchives ==
    { WithData(Plain, FileA("v2")),
      WithData([Plain EXCEPT !.meta = NamedMeta("q")],
               [EmptyTree EXCEPT !["a"] = "dir", !["a/a"] = "v1"]),
      [Plain EXCEPT !.readable = FALSE],
      [Plain EXCEPT !.metaFile = "absent", !.meta = EmptyMeta],
      [WithData(Plain, FileA("v2")) EXCEPT !.hasSums = TRUE, !.sums = <<<<"a", "h1">>>>],
      [Plain EXCEPT !.meta = [EmptyMeta EXCEPT !.kind = "scalar"]],
      [Plain EXCEPT !.meta = [EmptyMeta EXCEPT !.kind = "list"]],
      [WithData(Plain, FileA("v2")) EXCEPT !.pre = "exit1"],
      [WithData(Plain, FileA("v1")) EXCEPT !.pre = "exit0", !.post = "exit1"] }

----------------------------------------------------------------------------
(* Signals *)

Progress(v) == [type |-> "progress", val |-> v, msg |-> "", arg |-> ""]
Log(m, a)   == [type |-> "log", val |-> 0, msg |-> m, arg |-> a]

ProgressValues(evs) ==
    LET idx == {k \in 1..Len(evs) : evs[k].type = "progress"}
        F[k \in 0..Len(evs)] ==
            IF k = 0 THEN <<>>
            ELSE IF k \in idx THEN Append(F[k-1], evs[k].val) ELSE F[k-1]
    IN F[Len(evs)]

----------------------------------------------------------------------------
(* The steps of the pipeline, as functions of what they read.  A step's     *)
(* outcome is "ok" or the name of the exception it raises.                  *)

\* self.md5sums[path] = hashsum: a dict keeps the position of a key's first insertion
DictSet(d, k, v) ==
    IF \E n \in 1..Len(d) : d[n][1] = k
    THEN [n \in 1..Len(d) |-> IF d[n][1] = k THEN <<k, v>> ELSE d[n]]
    ELSE Append(d, <<k, v>>)

\* Package.extract, the loop over the lines of md5sums
RECURSIVE LoadSums(_, _)
LoadSums(lines, d) ==
    IF lines = <<>> THEN d
    ELSE LoadSums(Tail(lines), DictSet(d, Head(lines)[1], Head(lines)[2]))

\* Package.extract once the temporary directory exists
ExtractOutcome(ar) ==
    IF ~ar.readable THEN "ReadError"
    ELSE IF ar.metaFile = "absent" THEN "ValidationError"
    ELSE IF ar.metaFile = "badjson" THEN "JSONDecodeError"
    ELSE IF ar.hasSums /\ ar.badLine THEN "ValueError"
    ELSE "ok"

\* an extract that fills in the metadata whether or not it could be read
Extracted_Eager(ar, dir) ==
    [temp_dir |-> dir, metadata |-> ar.meta, md5sums |-> <<>>]

\* the Package object when extract returns or raises
Extracted(ar, dir) ==
    [temp_dir |-> dir,
     metadata |-> IF ar.readable /\ ar.metaFile = "json" THEN ar.meta ELSE EmptyMeta,
     md5sums  |-> IF ar.readable /\ ar.metaFile = "json" /\ ar.hasSums
                  THEN LoadSums(ar.sums, <<>>) ELSE <<>>]

\* Installer.verify_checksums: one entry, a file of the workspace under data/
CheckEntry(w, e) ==
    IF ~(w.hasData /\ Exists(w.data, e[1])) THEN "ValidationError"
    ELSE IF ~IsFile(w.data, e[1]) THEN "IsADirectoryError"
    ELSE IF MD5(w.data[e[1]]) # e[2] THEN "ValidationError"
    ELSE "ok"

RECURSIVE CheckEntries(_, _)
CheckEntries(w, d) ==
    IF d = <<>> THEN "ok"
    ELSE IF CheckEntry(w, Head(d)) # "ok" THEN CheckEntry(w, Head(d))
    ELSE CheckEntries(w, Tail(d))

VerifyChecksums(pkg, w) ==
    IF pkg.md5sums = <<>> THEN "ok" ELSE CheckEntries(w, pkg.md5sums)

VerifyChecksumsLog(pkg) ==
    IF pkg.md5sums = <<>> THEN <<>> ELSE <<Log("Verifying package checksums...", "")>>

\* Installer.verify_dependencies
RECURSIVE ReportDeps(_)
ReportDeps(deps) ==
    IF deps = <<>> \/ ~Head(deps).hasVersion THEN <<>>
    ELSE <<Log("Required", IF Head(deps).cond = "" THEN ">=" ELSE Head(deps).cond)>>
         \o ReportDeps(Tail(deps))

VerifyDependencies(pkg) ==
    IF pkg.metadata.kind = "scalar" THEN "TypeError"
    ELSE IF pkg.metadata.kind = "list" \/ ~pkg.metadata.hasDeps THEN "ok"
    ELSE IF \E n \in 1..Len(pkg.metadata.deps) : ~pkg.metadata.deps[n].hasVersion
         THEN "KeyError"
    ELSE "ok"

VerifyDependenciesLog(pkg) ==
    IF pkg.metadata.kind # "dict" \/ ~pkg.metadata.hasDeps THEN <<>>
    ELSE <<Log("Checking dependencies...", "")>> \o ReportDeps(pkg.metadata.deps)

\* Installer.create_backup: package.metadata['name']
BackupOutcome(pkg) ==
    IF pkg.metadata.kind # "dict" THEN "TypeError"
    ELSE IF ~pkg.metadata.hasName THEN "KeyError"
    ELSE "ok"

\* tar.add(dst, arcname): a directory is added with everything beneath it
TarAdd(r, p) ==
    IF r[p] = "dir"
    THEN {<<p, "dir">>} \cup {<<q, r[q]>> : q \in {x \in Paths : HasParent(x) /\ Parent(x) = p /\ Exists(r, x)}}
    ELSE {<<p, r[p]>>}

\* the members of the archive create_backup writes
BackupMembers(w, r) ==
    IF ~w.hasData THEN {}
    ELSE UNION {TarAdd(r, p) : p \in {x \in RegularFiles(w.data) : Exists(r, x)}}

\* a run_script without check=True: the exit status is ignored
RunScript_Unchecked(script) ==
    IF script = "noexec" THEN "PermissionError" ELSE "ok"

\* Installer.run_script
RunScript(script) ==
    IF script = "absent" \/ script = "exit0" THEN "ok"
    ELSE IF script = "exit1" THEN "PackageError"
    ELSE "PermissionError"

\* subprocess.run starts a process when the file exists and can be executed
Started(script, name) ==
    IF script \in {"exit0", "exit1"} THEN <<name>> ELSE <<>>

RunScriptLog(script, name) ==
    IF script = "absent" THEN <<>> ELSE <<Log("Running script", name)>>

\* Installer.copy_files: dst.parent.mkdir(parents=True, exist_ok=True) fails when
\* the parent exists and is no directory
MkdirFails(r, p) == HasParent(p) /\ IsFile(r, Parent(p))

\* shutil.copy2(src, dst): into dst when dst is a directory, else onto dst
CopyOne(r, t, p) ==
    LET made == IF HasParent(p) THEN [r EXCEPT ![Parent(p)] = "dir"] ELSE r
    IN IF made[p] = "dir" THEN [made EXCEPT ![Inside(p)] = t[p]]
       ELSE [made EXCEPT ![p] = t[p]]

\* the loop of copy_files over the regular files of the source, in rglob's order
RECURSIVE CopyLoop(_, _, _)
CopyLoop(r, t, order) ==
    IF order = <<>> THEN [root |-> r, out |-> "ok"]
    ELSE IF MkdirFails(r, Head(order)) THEN [root |-> r, out |-> "FileExistsError"]
    ELSE CopyLoop(CopyOne(r, t, Head(order)), t, Tail(order))

CopyFiles(w, r, order) ==
    IF ~w.hasData THEN [root |-> r, out |-> "ok"] ELSE CopyLoop(r, w.data, order)

CopyFilesLog(w) == IF w.hasData THEN <<Log("Copying files...", "")>> ELSE <<>>

\* a cleanup that forgets to remove the directory
Cleanup_Skipped(pkg, dirs) == dirs

\* Package.cleanup: the workspace directories left on disk
Cleanup(pkg, dirs) ==
    IF pkg.temp_dir # 0 /\ pkg.temp_dir \in dirs THEN dirs \ {pkg.temp_dir} ELSE dirs

\* shutil.rmtree(dir): the path must be a directory that exists
RmtreeOutcome(dir, dirs) ==
    IF dir = 0 THEN "TypeError"
    ELSE IF dir \notin dirs THEN "FileNotFoundError"
    ELSE "ok"

\* a cleanup that calls rmtree without looking at temp_dir
CleanupOutcome_Unguarded(pkg, dirs) == RmtreeOutcome(pkg.temp_dir, dirs)

\* Package.cleanup: what the call raises ("ok" if nothing); rmtree is reached
\* only for a temp_dir that is set and exists
CleanupOutcome(pkg, dirs) ==
    IF pkg.temp_dir # 0 /\ pkg.temp_dir \in dirs
    THEN RmtreeOutcome(pkg.temp_dir, dirs)
    ELSE "ok"

\* Package.__str__ raises when the metadata has no .get
StrFails(pkg) == pkg.metadata.kind # "dict"

----------------------------------------------------------------------------
(* Initial states *)

total == Len(packages)

NoPackage == [temp_dir |-> 0, metadata |-> EmptyMeta, md5sums |-> <<>>]

\* MainWindow.__init__: both buttons enabled, Install connected to
\* start_install, the single-shot timer armed, no self.thread yet
InitWindow ==
    [state          |-> "open",
     timer          |-> "pending",
     install_button |-> [enabled |-> TRUE, slot |-> "start_install"],
     cancel_button  |-> [enabled |-> TRUE],
     thread         |-> 0,
     dialogs        |-> 0,
     log            |-> <<>>]

InitGuiState ==
    /\ window = InitWindow
    /\ threads = <<>>
    /\ posted = <<>>

\* main is not followed: it has handed its packages to the window
InitEntryState ==
    /\ euid = 0
    /\ argv = <<>>
    /\ files = <<>>
    /\ mainpc = "exec"
    /\ visited = 0
    /\ valid_packages = <<>>
    /\ returned = "none"
    /\ started = <<>>

\* InstallerThread.run is entered
InitThread ==
    /\ i = 0
    /\ success = 0
    /\ pc = "loop"
    /\ package = NoPackage
    /\ ws = EmptyDir
    /\ tmp = {}
    /\ backup_dir = {}
    /\ clock = 0
    /\ err = "none"
    /\ result = "none"
    /\ events = <<>>
    /\ steps = <<>>
    /\ attempted = <<>>
    /\ errors = <<>>
    /\ signals = <<>>
    /\ rootBefore = root
    /\ backup_path = <<>>
    /\ outcomes = <<>>
    /\ procs = <<>>

InitWorker ==
    /\ InitGuiState
    /\ InitEntryState
    /\ InitThread

\* batches of up to MaxBatch packages on a nearly empty target root
Init ==
    /\ packages \in SeqsUpTo(BatchArchives, MaxBatch)
    /\ root \in {EmptyTree, [EmptyTree EXCEPT !["a"] = "v1", !["b"] = "v1"]}
    /\ InitWorker

\* one package of any shape on any target root
InitFiles ==
    /\ packages \in [1..1 -> AllArchives]
    /\ root \in Trees
    /\ InitWorker

----------------------------------------------------------------------------
(* Installer.install_package *)

\* a pipeline that carries on after a step has raised
StepPc_Swallow(outcome, next) == next

\* an exception leaves the try block; otherwise the next statement runs
StepPc(outcome, next) == IF outcome = "ok" THEN next ELSE "except"

\* one step of the try block followed by its progress_updated.emit
Step(name, outcome, logs, value, next) ==
    /\ steps' = Append(steps, [step |-> name, ok |-> outcome = "ok"])
    /\ events' = events \o logs \o (IF outcome = "ok" THEN <<Progress(value)>> ELSE <<>>)
    /\ pc' = StepPc(outcome, next)
    /\ err' = IF outcome = "ok" THEN "none" ELSE outcome

\* for ... in enumerate(self.packages, 1): install_package(package_path) is entered
install_package ==
    /\ pc = "loop"
    /\ i < total
    /\ i' = i + 1
    /\ attempted' = Append(attempted, i + 1)
    /\ package' = NoPackage
    /\ events' = <<Log("Extracting", "")>>
    /\ steps' = <<>>
    /\ err' = "none"
    /\ result' = "none"
    /\ rootBefore' = root
    /\ backup_path' = <<>>
    /\ procs' = <<>>
    /\ pc' = "extract"
    /\ UNCHANGED <<entry, gui, outcomes, packages, success, ws, tmp, root, backup_dir, clock, errors, signals>>

\* package.extract() when tempfile.mkdtemp raises: no workspace is created
extract_no_tempdir ==
    /\ pc = "extract"
    /\ Step("extract", "OSError", <<>>, 10, "verify_checksums")
    /\ UNCHANGED <<entry, gui, procs, outcomes, packages, i, success, package, ws, tmp, root, backup_dir, clock,
                   result, attempted, errors, signals, rootBefore, backup_path>>

extract ==
    /\ pc = "extract"
    /\ package' = Extracted(packages[i], i)
    /\ tmp' = tmp \cup {i}
    /\ ws' = IF packages[i].readable THEN packages[i] ELSE EmptyDir
    /\ Step("extract", ExtractOutcome(packages[i]), <<>>, 10, "verify_checksums")
    /\ UNCHANGED <<entry, gui, procs, outcomes, packages, i, success, root, backup_dir, clock, result, attempted,
                   errors, signals, rootBefore, backup_path>>

verify_checksums ==
    /\ pc = "verify_checksums"
    /\ Step("verify_checksums", VerifyChecksums(package, ws),
            VerifyChecksumsLog(package), 20, "verify_dependencies")
    /\ UNCHANGED <<entry, gui, procs, outcomes, packages, i, success, package, ws, tmp, root, backup_dir, clock,
                   result, attempted, errors, signals, rootBefore, backup_path>>

verify_dependencies ==
    /\ pc = "verify_dependencies"
    /\ Step("verify_dependencies", VerifyDependencies(package),
            VerifyDependenciesLog(package), 30, "create_backup")
    /\ UNCHANGED <<entry, gui, procs, outcomes, packages, i, success, package, ws, tmp, root, backup_dir, clock,
                   result, attempted, errors, signals, rootBefore, backup_path>>

\* the backup directory after tarfile.open(backup_path, "w:xz") and the tar.add calls
WriteBackup(dir, file, members) ==
    {b \in dir : b.file # file} \cup {[file |-> file, members |-> members]}

create_backup ==
    /\ pc = "create_backup"
    /\ IF BackupOutcome(package) = "ok"
       THEN \E now \in {clock, clock + 1} :
              /\ now <= MaxClock
              /\ clock' = now
              /\ backup_path' = <<package.metadata.name, now>>
              /\ backup_dir' = WriteBackup(backup_dir, <<package.metadata.name, now>>,
                                           BackupMembers(ws, root))
       ELSE UNCHANGED <<clock, backup_path, backup_dir>>
    /\ Step("create_backup", BackupOutcome(package),
            IF BackupOutcome(package) = "ok" THEN <<Log("Creating backup...", "")>> ELSE <<>>,
            40, "preinstall")
    /\ UNCHANGED <<entry, gui, procs, outcomes, packages, i, success, package, ws, tmp, root, result, attempted,
                   errors, signals, rootBefore>>

\* create_backup when tarfile.open or tar.add raises: no archive is written
create_backup_io_error ==
    /\ pc = "create_backup"
    /\ BackupOutcome(package) = "ok"
    /\ Step("create_backup", "OSError", <<Log("Creating backup...", "")>>, 40, "preinstall")
    /\ UNCHANGED <<entry, gui, procs, outcomes, packages, i, success, package, ws, tmp, root, backup_dir,
                   clock, result, attempted, errors, signals, rootBefore, backup_path>>

preinstall ==
    /\ pc = "preinstall"
    /\ Step("preinstall", RunScript(ws.pre), RunScriptLog(ws.pre, "preinstall"),
            50, "copy_files")
    /\ procs' = procs \o Started(ws.pre, "preinstall")
    /\ UNCHANGED <<entry, gui, outcomes, packages, i, success, package, ws, tmp, root, backup_dir, clock,
                   result, attempted, errors, signals, rootBefore, backup_path>>

copy_files ==
    /\ pc = "copy_files"
    /\ \E order \in Orders(RegularFiles(ws.data)) :
         /\ root' = CopyFiles(ws, root, order).root
         /\ Step("copy_files", CopyFiles(ws, root, order).out, CopyFilesLog(ws),
                 70, "postinstall")
    /\ UNCHANGED <<entry, gui, procs, outcomes, packages, i, success, package, ws, tmp, backup_dir, clock, result,
                   attempted, errors, signals, rootBefore, backup_path>>

postinstall ==
    /\ pc = "postinstall"
    /\ Step("postinstall", RunScript(ws.post), RunScriptLog(ws.post, "postinstall"),
            80, "register_package")
    /\ procs' = procs \o Started(ws.post, "postinstall")
    /\ UNCHANGED <<entry, gui, outcomes, packages, i, success, package, ws, tmp, root, backup_dir, clock,
                   result, attempted, errors, signals, rootBefore, backup_path>>

\* register_package (a no-op), emit(90), the success message, return True
register_package ==
    /\ pc = "register_package"
    /\ steps' = Append(steps, [step |-> "register_package", ok |-> TRUE])
    /\ events' = events \o <<Progress(90), Log("Successfully installed", "")>>
    /\ pc' = "finally"
    /\ UNCHANGED <<entry, gui, procs, outcomes, packages, i, success, package, ws, tmp, root, backup_dir, clock, err,
                   result, attempted, errors, signals, rootBefore, backup_path>>

\* an except clause that restores the target root
RootAfterFailure_Rollback(r, before) == before

\* the target root when the except clause is left: nothing is restored
RootAfterFailure(r, before) == r

\* except Exception as e: log the failure and re-raise
except ==
    /\ pc = "except"
    /\ IF StrFails(package)
       THEN /\ err' = "AttributeError"
            /\ UNCHANGED events
       ELSE /\ events' = Append(events, Log("Failed to install", err))
            /\ UNCHANGED err
    /\ root' = RootAfterFailure(root, rootBefore)
    /\ pc' = "finally"
    /\ UNCHANGED <<entry, gui, procs, outcomes, packages, i, success, package, ws, tmp, backup_dir, clock, result,
                   steps, attempted, errors, signals, rootBefore, backup_path>>

\* finally: package.cleanup(); install_package returns True or raises
finally ==
    /\ pc = "finally"
    /\ tmp' = Cleanup(package, tmp)
    /\ ws' = EmptyDir
    /\ err' = IF CleanupOutcome(package, tmp) = "ok" THEN err
              ELSE CleanupOutcome(package, tmp)
    /\ result' = IF err' = "none" THEN "True" ELSE "raised"
    /\ outcomes' = Append(outcomes, result')
    /\ pc' = "returned"
    /\ UNCHANGED <<entry, gui, procs, packages, i, success, package, root, backup_dir, clock,
                   events, steps, attempted, errors, signals, rootBefore, backup_path>>

----------------------------------------------------------------------------
(* InstallerThread.run *)

\* a counter that does not look at what install_package returned
CountSuccess_Always(n, res) == n + 1

\* if self.installer.install_package(package_path): success += 1
CountSuccess(n, res) == IF res = "True" THEN n + 1 ELSE n

\* a batch progress computed from the 0-based position of the package
BatchProgress_ZeroBased(k, n) == ((k - 1) * 100) \div n

\* int((i / total) * 100); the float product truncates to the integer quotient
\* for the batch sizes modelled
BatchProgress(k, n) == (k * 100) \div n

\* a batch that stops at the first package that raises
AfterPackagePc_Abort(res) == IF res = "raised" THEN "done" ELSE "loop"

\* where run goes once install_package has returned or raised
AfterPackagePc(res) == "loop"

\* the rest of the loop body: count or log, then emit the batch progress
after_package ==
    /\ pc = "returned"
    /\ success' = CountSuccess(success, result)
    /\ errors' = IF result = "raised" THEN Append(errors, [pkg |-> i, err |-> err])
                 ELSE errors
    /\ events' = Append(events, Progress(BatchProgress(i, total)))
    /\ pc' = AfterPackagePc(result)
    /\ UNCHANGED <<entry, gui, procs, outcomes, packages, i, package, ws, tmp, root, backup_dir, clock, err, result,
                   steps, attempted, signals, rootBefore, backup_path>>

\* the signal emitted after the loop
Verdict(ok, n) ==
    IF ok = n THEN [kind |-> "installation_completed", failed |-> 0]
    ELSE [kind |-> "installation_failed", failed |-> n - ok]

finish ==
    /\ pc = "loop"
    /\ i >= total
    /\ signals' = Append(signals, Verdict(success, total))
    /\ pc' = "done"
    /\ UNCHANGED <<entry, gui, procs, outcomes, packages, i, success, package, ws, tmp, root, backup_dir, clock, err,
                   result, events, steps, attempted, errors, rootBefore, backup_path>>

Next ==
    \/ install_package
    \/ extract_no_tempdir
    \/ extract
    \/ verify_checksums
    \/ verify_dependencies
    \/ create_backup
    \/ create_backup_io_error
    \/ preinstall
    \/ copy_files
    \/ postinstall
    \/ register_package
    \/ except
    \/ finally
    \/ after_package
    \/ finish

Spec == Init /\ [][Next]_vars

SpecFiles == InitFiles /\ [][Next]_vars

\* the worker thread keeps running: every step of run terminates and the
\* thread is not terminated from outside
SpecLive == Init /\ [][Next]_vars /\ WF_vars(Next)

----------------------------------------------------------------------------
(* MainWindow: the events of the GUI thread and the threads it starts *)

\* the window with a package path list; run is followed thread by thread
InitGui ==
    /\ packages \in SeqsUpTo({Plain}, MaxBatch)
    /\ root = EmptyTree
    /\ InitWorker

Running == {t \in 1..Len(threads) : threads[t].state = "running"}

\* the user can reach the window's own widgets: it is open and no modal
\* message box is in front of it
Reachable == window.state = "open" /\ window.dialogs = 0

\* self.thread = InstallerThread(...) while the previous self.thread is still
\* running drops the last reference to a running QThread: the old thread either
\* keeps running until its run returns or the process aborts in ~QThread
Reassign == IF window.thread \in Running THEN {"runs", "aborts"} ELSE {"runs"}

\* MainWindow.start_install, entered with the window as w
start_install(w) ==
    \E outcome \in Reassign :
        /\ window' = [w EXCEPT
                         !.install_button.enabled = FALSE,
                         !.cancel_button.enabled = FALSE,
                         !.thread = Len(threads) + 1,
                         !.state = IF outcome = "aborts" THEN "aborted" ELSE @]
        /\ threads' = Append(threads, [state |-> "running", pos |-> 0,
                                       busy |-> FALSE, success |-> 0])
        /\ UNCHANGED posted

\* QTimer.singleShot(1000, self.start_install) fires
timer_fires ==
    /\ window.state = "open"
    /\ window.timer = "pending"
    /\ start_install([window EXCEPT !.timer = "fired"])
    /\ UNCHANGED <<worker, entry>>

\* MainWindow.closeEvent, with the user's answer to the confirmation
closeEvent ==
    IF window.thread \in Running
    THEN \E reply \in {"Yes", "No"} :
            IF reply = "Yes"
            THEN /\ threads' = [threads EXCEPT ![window.thread].state = "terminated"]
                 /\ window' = [window EXCEPT !.state = "closed"]
            ELSE UNCHANGED <<window, threads>>
    ELSE /\ window' = [window EXCEPT !.state = "closed"]
         /\ UNCHANGED threads

\* the Install button is clicked: whatever clicked is connected to runs
click_install ==
    /\ Reachable
    /\ window.install_button.enabled
    /\ IF window.install_button.slot = "start_install"
       THEN start_install(window)
       ELSE closeEvent /\ UNCHANGED posted
    /\ UNCHANGED <<worker, entry>>

\* the Cancel button is clicked
click_cancel ==
    /\ Reachable
    /\ window.cancel_button.enabled
    /\ closeEvent
    /\ UNCHANGED <<posted, worker, entry>>

\* the window manager asks the window to close
close_request ==
    /\ Reachable
    /\ closeEvent
    /\ UNCHANGED <<posted, worker, entry>>

\* a running thread enters install_package for its next package: the first
\* event of the package reaches the window
thread_install_package(t) ==
    /\ window.state = "open"
    /\ t \in Running
    /\ ~threads[t].busy
    /\ threads[t].pos < total
    /\ threads' = [threads EXCEPT ![t].busy = TRUE]
    /\ window' = [window EXCEPT !.log = Append(@, [thread |-> t,
                                                  pkg |-> threads[t].pos + 1])]
    /\ UNCHANGED <<posted, worker, entry>>

\* install_package returns True or raises, and run emits the batch progress:
\* the last event of the package
thread_after_package(t) ==
    /\ window.state = "open"
    /\ t \in Running
    /\ threads[t].busy
    /\ \E res \in {"True", "raised"} :
          threads' = [threads EXCEPT
                         ![t].busy = FALSE,
                         ![t].pos = @ + 1,
                         ![t].success = CountSuccess(@, res)]
    /\ window' = [window EXCEPT !.log = Append(@, [thread |-> t,
                                                  pkg |-> threads[t].pos + 1])]
    /\ UNCHANGED <<posted, worker, entry>>

\* run leaves the loop, emits its terminal signal and returns
thread_finish(t) ==
    /\ window.state = "open"
    /\ t \in Running
    /\ ~threads[t].busy
    /\ threads[t].pos = total
    /\ threads' = [threads EXCEPT ![t].state = "finished"]
    /\ posted' = Append(posted, Verdict(threads[t].success, total))
    /\ UNCHANGED <<window, worker, entry>>

\* MainWindow.on_completed and MainWindow.on_failed: the queued signal is
\* delivered, Install becomes Close, and a modal message box opens
on_signal(kind) ==
    /\ window.state = "open"
    /\ posted # <<>>
    /\ Head(posted).kind = kind
    /\ posted' = Tail(posted)
    /\ window' = [window EXCEPT
                     !.install_button = [enabled |-> TRUE, slot |-> "close"],
                     !.cancel_button.enabled = FALSE,
                     !.dialogs = @ + 1]
    /\ UNCHANGED <<threads, worker, entry>>

on_completed == on_signal("installation_completed")

on_failed == on_signal("installation_failed")

\* msg.exec() returns: the user dismisses the message box
dismiss ==
    /\ window.state = "open"
    /\ window.dialogs > 0
    /\ window' = [window EXCEPT !.dialogs = @ - 1]
    /\ UNCHANGED <<threads, posted, worker, entry>>

NextGui ==
    \/ timer_fires
    \/ click_install
    \/ click_cancel
    \/ close_request
    \/ \E t \in 1..Len(threads) : thread_install_package(t)
    \/ \E t \in 1..Len(threads) : thread_after_package(t)
    \/ \E t \in 1..Len(threads) : thread_finish(t)
    \/ on_completed
    \/ on_failed
    \/ dismiss

SpecGui == InitGui /\ [][NextGui]_vars

----------------------------------------------------------------------------
(* main: the entry point, up to the event loop *)

\* file names, as the characters pathlib sees
Apg == <<".", "a", "p", "g">>
Names == { <<"p">> \o Apg,                  \* p.apg
           <<"q">> \o Apg,                  \* q.apg
           Apg,                             \* .apg
           <<"p", ".", "A", "P", "G">>,     \* p.APG
           <<"p">> }                        \* p

\* what a path can be on disk; "link" is a symbolic link to a regular file
Kinds == {"absent", "file", "dir", "link"}

\* os.stat follows symbolic links
Stat(kind) == IF kind = "link" THEN "file" ELSE kind

\* the names ending in .apg are anything on disk, the others regular files
Disks == {f \in [Names -> Kinds] :
            \A n \in Names \ {<<"p">> \o Apg, <<"q">> \o Apg} : f[n] = "file"}

Max(S) == CHOOSE m \in S : \A x \in S : x <= m

\* a suffix taken from the last dot wherever it is
Suffix_NoStem(name) ==
    LET dots == {j \in 1..Len(name) : name[j] = "."}
    IN IF dots = {} THEN <<>> ELSE SubSeq(name, Max(dots), Len(name))

\* PurePath.suffix: from the last dot, unless the name starts or ends with it
Suffix(name) ==
    LET dots == {j \in 1..Len(name) : name[j] = "."}
    IN IF dots # {} /\ 1 < Max(dots) /\ Max(dots) < Len(name)
       THEN SubSeq(name, Max(dots), Len(name))
       ELSE <<>>

\* the three tests of validate_packages on one path
Valid(path) ==
    /\ Stat(files[path]) # "absent"
    /\ Stat(files[path]) = "file"
    /\ Suffix(path) = Apg

InitMain ==
    /\ euid \in {0, 1000}
    /\ argv \in SeqsUpTo(Names, MaxArgs)
    /\ files \in Disks
    /\ mainpc = "setup_logging"
    /\ visited = 0
    /\ valid_packages = <<>>
    /\ returned = "none"
    /\ started = <<>>
    /\ packages = <<>>
    /\ root = EmptyTree
    /\ InitGuiState
    /\ InitThread

\* main returns code, through the finally clause
Return(code) ==
    /\ returned' = code
    /\ mainpc' = "exited"

\* setup_logging(): an error other than the PermissionError it handles itself
\* reaches "except Exception" of main
setup_logging ==
    /\ mainpc = "setup_logging"
    /\ \E outcome \in {"ok", "OSError"} :
          IF outcome = "ok" THEN mainpc' = "check_root" /\ UNCHANGED returned
          ELSE Return("1")
    /\ UNCHANGED <<euid, argv, files, visited, valid_packages, started, worker, gui>>

\* if not check_root(): return 1
check_root ==
    /\ mainpc = "check_root"
    /\ IF euid = 0 THEN mainpc' = "validate_packages" /\ UNCHANGED returned
       ELSE Return("1")
    /\ UNCHANGED <<euid, argv, files, visited, valid_packages, started, worker, gui>>

\* one iteration of the loop of validate_packages
validate_packages ==
    /\ mainpc = "validate_packages"
    /\ visited < Len(argv)
    /\ visited' = visited + 1
    /\ valid_packages' = IF Valid(argv[visited + 1])
                         THEN Append(valid_packages, argv[visited + 1])
                         ELSE valid_packages
    /\ UNCHANGED <<euid, argv, files, mainpc, returned, started, worker, gui>>

\* validate_packages returns; if not packages: return 1
no_packages ==
    /\ mainpc = "validate_packages"
    /\ visited = Len(argv)
    /\ IF valid_packages = <<>> THEN Return("1")
       ELSE mainpc' = "setup_application" /\ UNCHANGED returned
    /\ UNCHANGED <<euid, argv, files, visited, valid_packages, started, worker, gui>>

\* app = setup_application(); if not app: return 1
setup_application ==
    /\ mainpc = "setup_application"
    /\ \E app \in {"app", "None"} :
          IF app = "None" THEN Return("1")
          ELSE mainpc' = "MainWindow" /\ UNCHANGED returned
    /\ UNCHANGED <<euid, argv, files, visited, valid_packages, started, worker, gui>>

\* window = MainWindow(packages); window.show(): Installer() creates its
\* directories and may raise
MainWindow ==
    /\ mainpc = "MainWindow"
    /\ \E outcome \in {"ok", "OSError"} :
          IF outcome = "ok" THEN mainpc' = "exec" /\ UNCHANGED returned
          ELSE Return("1")
    /\ UNCHANGED <<euid, argv, files, visited, valid_packages, started, worker, gui>>

\* inside app.exec(): start_install runs, from the timer or from the Install
\* button (once each), and starts an InstallerThread on the window's packages
exec_start_install ==
    /\ mainpc = "exec"
    /\ \E by \in {"timer", "click"} :
          /\ \A k \in 1..Len(started) : started[k].by # by
          /\ started' = Append(started, [by |-> by, packages |-> valid_packages])
    /\ UNCHANGED <<euid, argv, files, mainpc, visited, valid_packages, returned,
                   worker, gui>>

\* return app.exec(): the window was closed
exec_returns ==
    /\ mainpc = "exec"
    /\ Return("0")
    /\ UNCHANGED <<euid, argv, files, visited, valid_packages, started, worker, gui>>

\* except KeyboardInterrupt: return 130; the interrupt reaches main while
\* its own statements run, before the event loop has taken over
KeyboardInterrupt ==
    /\ mainpc \notin {"exec", "exited"}
    /\ Return("130")
    /\ UNCHANGED <<euid, argv, files, visited, valid_packages, started, worker, gui>>

NextMain ==
    \/ setup_logging
    \/ check_root
    \/ validate_packages
    \/ no_packages
    \/ setup_application
    \/ MainWindow
    \/ exec_start_install
    \/ exec_returns
    \/ KeyboardInterrupt

SpecMain == InitMain /\ [][NextMain]_vars

----------------------------------------------------------------------------
(* Properties *)

StepOrder == <<"extract", "verify_checksums", "verify_dependencies", "create_backup",
               "preinstall", "copy_files", "postinstall", "register_package">>
StepValue == <<10, 20, 30, 40, 50, 70, 80, 90>>

\* install_package of the current package has returned or raised, and run has
\* emitted the batch progress for it
PackageDone == pc \in {"loop", "done"} /\ i >= 1

Failed == {k \in 1..Len(outcomes) : outcomes[k] = "raised"}

\* C1: the progress events of every package that installs successfully, from its
\* extraction to the start of the next package or the end of the batch, are
\* exactly 10, 20, 30, 40, 50, 70, 80, 90, 100.
C1_SuccessfulPackageProgress ==
    (PackageDone /\ result = "True")
        => ProgressValues(events) = <<10, 20, 30, 40, 50, 70, 80, 90, 100>>

\* C2: when run finishes a batch of N packages of which K failed, N packages
\* were attempted, N - K successes were counted, installation_completed is the
\* one signal emitted iff K = 0, otherwise installation_failed reporting K, and
\* one failure record was logged for each failed package.
C2_BatchResult ==
    pc = "done" =>
        /\ Len(attempted) = total
        /\ Len(outcomes) = total
        /\ success = total - Cardinality(Failed)
        /\ signals = << IF Failed = {}
                        THEN [kind |-> "installation_completed", failed |-> 0]
                        ELSE [kind |-> "installation_failed",
                              failed |-> Cardinality(Failed)] >>
        /\ Len(errors) = Cardinality(Failed)
        /\ {errors[k].pkg : k \in 1..Len(errors)} = Failed

C2_Witness ==
    pc = "done" /\ total = 2 /\ Cardinality(Failed) = 1 /\ success = 1

\* C3: every package of the batch is handed to install_package exactly once, in
\* the order supplied, whatever an earlier package raised.
C3_EveryPackageOnceInOrder ==
    /\ attempted = [k \in 1..i |-> k]
    /\ pc = "done" => i = total

C3_Witness ==
    /\ pc = "done"
    /\ total = 2
    /\ attempted = <<1, 2>>
    /\ outcomes[1] = "raised"
    /\ errors[1].err \in {"FileExistsError", "OSError"}

\* C4: once install_package has returned or raised, on any exit path, no
\* workspace directory exists; none remains after the batch.
C4_WorkspaceRemoved ==
    pc \in {"returned", "loop", "done"} => tmp = {}

\* the deploy step failed on I/O after the workspace had been created
C4_Witness ==
    /\ pc = "returned"
    /\ result = "raised"
    /\ package.temp_dir # 0
    /\ Len(steps) = 6
    /\ err = "FileExistsError"

\* the defects of an archive that C5 names: no metadata.json, or an entry of the
\* checksum manifest whose file is missing or whose hash differs
Defective(ar) ==
    /\ ar.readable
    /\ \/ ar.metaFile = "absent"
       \/ /\ ar.metaFile = "json"
          /\ ar.hasSums
          /\ \E n \in 1..Len(LoadSums(ar.sums, <<>>)) :
                LET e == LoadSums(ar.sums, <<>>)[n]
                IN \/ ~(ar.hasData /\ Exists(ar.data, e[1]))
                   \/ IsFile(ar.data, e[1]) /\ MD5(ar.data[e[1]]) # e[2]

\* C5: a structurally invalid archive, once unpacked, makes install_package fail
\* with ValidationError before backup, scripts, deploy and register, leaving
\* the target root as it was.
C5_InvalidArchiveRejected ==
    (pc = "returned" /\ package.temp_dir # 0 /\ Defective(packages[i])) =>
        /\ result = "raised"
        /\ err = "ValidationError"
        /\ Len(steps) <= 2
        /\ root = rootBefore

OkSteps == IF steps # <<>> /\ ~steps[Len(steps)].ok THEN Len(steps) - 1 ELSE Len(steps)

\* C6: the steps of one package run in the fixed order, each at most once, a
\* step only after every earlier one succeeded (deploy only after a written
\* backup and a successful pre-install script), and a step's progress value is
\* emitted iff the step succeeded.
C6_StepOrder ==
    /\ Len(steps) <= Len(StepOrder)
    /\ \A k \in 1..Len(steps) : steps[k].step = StepOrder[k]
    /\ \A k \in 1..(Len(steps) - 1) : steps[k].ok
    /\ Len(ProgressValues(events)) = OkSteps + (IF PackageDone THEN 1 ELSE 0)
    /\ \A k \in 1..OkSteps : ProgressValues(events)[k] = StepValue[k]
    /\ Len(steps) >= 6 =>
          /\ packages[i].pre \in {"absent", "exit0"}
          /\ \E b \in backup_dir : b.file = backup_path

\* deploy has acted after a pre-install script that ran and exited 0
C6_Witness ==
    /\ pc = "postinstall"
    /\ ws.pre = "exit0"
    /\ root # rootBefore

\* C7: the archive create_backup writes holds the pre-overwrite copy of exactly
\* the target-root entries at the paths of the regular files of data/, nothing
\* else, and create_backup changes nothing under the target root.
C7_BackupExactlyOverwritten ==
    pc = "preinstall" =>
        /\ root = rootBefore
        /\ \E b \in backup_dir :
              /\ b.file = backup_path
              /\ b.members = {<<p, root[p]>> :
                                p \in {x \in RegularFiles(ws.data) : Exists(root, x)}}

\* every regular file of the payload is where copy_files put it
Deployed(ar, before, r) ==
    ar.hasData =>
        \A p \in RegularFiles(ar.data) :
            r[IF before[p] = "dir" THEN Inside(p) ELSE p] = ar.data[p]

PostScriptFailed == Len(steps) >= 7 /\ packages[i].post = "exit1"

\* C8: when the post-install script exits non-zero the package stops there and
\* counts as failed, register_package does not run, no success message is
\* emitted, and the payload files copied by copy_files stay on the target root.
C8_PostScriptFailure ==
    PostScriptFailed =>
        /\ Len(steps) = 7
        /\ ~steps[7].ok
        /\ pc \in {"except", "finally", "returned", "loop", "done"}
        /\ result # "True"
        /\ \A k \in 1..Len(events) : events[k].msg # "Successfully installed"
        /\ pc \in {"returned", "loop", "done"} => outcomes[i] = "raised"
        /\ PackageDone =>
              /\ success = i - Cardinality(Failed)
              /\ \E k \in 1..Len(errors) : errors[k].pkg = i
        /\ Deployed(packages[i], rootBefore, root)

C8_Witness ==
    /\ pc = "returned"
    /\ PostScriptFailed
    /\ root # rootBefore

\* C9: the progress values emitted during one package's lifecycle, its step
\* values followed by the value the batch driver emits, strictly increase.
C9_ProgressStrictlyIncreases ==
    \A k \in 1..(Len(ProgressValues(events)) - 1) :
        ProgressValues(events)[k] < ProgressValues(events)[k + 1]

\* C10: verify_checksums succeeds iff every entry of the manifest names a file
\* of the workspace whose recomputed hash equals the recorded one, and fails
\* with ValidationError otherwise.
C10_VerifyIffAllEntriesMatch ==
    (Len(steps) = 2 /\ pc \in {"verify_dependencies", "except"}) =>
        /\ steps[2].ok <=>
              \A n \in 1..Len(package.md5sums) :
                  /\ ws.hasData
                  /\ IsFile(ws.data, package.md5sums[n][1])
                  /\ MD5(ws.data[package.md5sums[n][1]]) = package.md5sums[n][2]
        /\ ~steps[2].ok => err = "ValidationError"

----------------------------------------------------------------------------
(* Properties of the single steps *)

\* the log_message emissions among evs whose message is one of msgs
LogsOf(evs, msgs) ==
    SelectSeq(evs, LAMBDA e : e.type = "log" /\ e.msg \in msgs)

\* the script of the current package that step number n of the pipeline runs
ScriptOf(n) == IF n = 5 THEN packages[i].pre ELSE packages[i].post

\* step n is a run_script call that has returned or raised
ScriptRan(n) == i >= 1 /\ Len(steps) >= n

\* step n is a run_script call that has just raised
ScriptRaised(n) == ScriptRan(n) /\ Len(steps) = n /\ pc = "except"

\* the processes run_script has started for the current package
ProcsExpected ==
    (IF ScriptRan(5) /\ ScriptOf(5) \in {"exit0", "exit1"} THEN <<"preinstall">> ELSE <<>>)
    \o (IF ScriptRan(7) /\ ScriptOf(7) \in {"exit0", "exit1"} THEN <<"postinstall">>
        ELSE <<>>)

C12_CopyFiles ==
    /\ pc = "postinstall" =>
          IF packages[i].hasData
          THEN /\ \A p \in RegularFiles(packages[i].data) : root[p] = packages[i].data[p]
               /\ \A p \in Paths \ RegularFiles(packages[i].data) :
                     IsFile(rootBefore, p) => root[p] = rootBefore[p]
          ELSE root = rootBefore
    /\ (i >= 1 /\ Len(steps) >= 6 /\ ~packages[i].hasData) => steps[6].ok

\* the terminal signal has been emitted
Terminated == signals # <<>>

\* the state part of C13
TerminalSignalOnce ==
    /\ Len(signals) <= 1
    /\ Terminated <=> pc = "done"
    /\ Terminated =>
          /\ signals[1].kind \in {"installation_completed", "installation_failed"}
          /\ i = total
          /\ Len(outcomes) = total
          /\ total > 0 => /\ events # <<>>
                          /\ events[Len(events)] = Progress(100)

\* C13: in a run over a non-empty batch the last progress event is 100, emitted
\* after the last package has been processed and followed by exactly one
\* terminal signal; after the terminal signal no progress or log event and no
\* second signal is emitted.
C13_TerminalSignal ==
    /\ []TerminalSignalOnce
    /\ [][Terminated => UNCHANGED <<events, signals>>]_vars

\* a batch of two whose first package failed has ended with installation_failed
C13_Witness ==
    /\ pc = "done"
    /\ total = 2
    /\ outcomes[1] = "raised"
    /\ signals = <<[kind |-> "installation_failed", failed |-> 1]>>
    /\ events[Len(events)] = Progress(100)

\* C14: a package that fails produces exactly one failure log message, which
\* carries the underlying error and is the last event of the package, after its
\* last progress value; a package is reported as installed only when all its
\* steps completed.
C14_FailureLogged ==
    pc = "returned" =>
        IF result = "raised"
        THEN /\ Len(LogsOf(events, {"Failed to install"})) = 1
             /\ events[Len(events)] = Log("Failed to install", err)
             /\ LogsOf(events, {"Successfully installed"}) = <<>>
        ELSE /\ Len(steps) = Len(StepOrder)
             /\ \A k \in 1..Len(steps) : steps[k].ok

\* the dependencies declared by the metadata of the current package
Declared ==
    IF packages[i].meta.kind = "dict" /\ packages[i].meta.hasDeps
    THEN packages[i].meta.deps ELSE <<>>

\* C15: verify_dependencies never fails: for any declared dependencies it emits
\* one informational event per dependency, in declared order, the condition
\* defaulting to ">=", and succeeds; no step raises DependencyError.
C15_VerifyDependenciesNeverFails ==
    /\ (i >= 1 /\ Len(steps) >= 3) =>
          /\ steps[3].ok
          /\ LogsOf(events, {"Required"}) =
                [k \in 1..Len(Declared) |->
                    Log("Required", IF Declared[k].cond = "" THEN ">="
                                    ELSE Declared[k].cond)]
    /\ err # "DependencyError"

\* C16: whatever the timer, the Install button and close requests do, at most
\* one InstallerThread is running at a time, and the events of two packages
\* never interleave in the window.
C16_AtMostOneThread ==
    /\ Cardinality(Running) <= 1
    /\ \A a, b, c \in 1..Len(window.log) :
          (a < b /\ b < c /\ window.log[a] = window.log[c])
              => window.log[b] = window.log[a]

\* C17: a backup archive is written once and never mutated: no create_backup
\* call, in any batch, overwrites or alters an archive an earlier create_backup
\* wrote.
C17_BackupWrittenOnce ==
    [][\A b \in backup_dir : b \in backup_dir']_vars

\* extract has been called for the current package and has returned normally
ExtractSucceeded == Len(steps) >= 1 /\ steps[1].ok

\* C18 (amended): the workspace directory of a Package exists exactly from the
\* moment extract has created it until cleanup, whether extract then succeeded
\* or failed; the metadata is populated only once extract has read
\* metadata.json from the workspace, and is the archive's metadata after a
\* successful extract.
C18_WorkspaceAndMetadata ==
    /\ tmp = (IF package.temp_dir # 0 /\ pc \notin {"returned", "loop", "done"}
              THEN {package.temp_dir} ELSE {})
    /\ package.temp_dir # 0 => (package.temp_dir = i /\ Len(steps) >= 1)
    /\ package.metadata # EmptyMeta =>
          /\ Len(steps) >= 1
          /\ packages[i].readable
          /\ packages[i].metaFile = "json"
    /\ ExtractSucceeded => package.metadata = packages[i].meta

\* extract has failed on a malformed md5sums line: the workspace is on disk and
\* the metadata is populated
C18_Witness ==
    /\ pc = "except"
    /\ Len(steps) = 1
    /\ ~steps[1].ok
    /\ err = "ValueError"
    /\ tmp = {i}
    /\ package.metadata = NamedMeta("p")

\* C18 as stated: the workspace directory exists only between a successful
\* extraction and cleanup, and the metadata is populated only if extraction
\* completed successfully.
C18_OnlyAfterSuccessfulExtract ==
    /\ tmp # {} => ExtractSucceeded
    /\ package.metadata # EmptyMeta => ExtractSucceeded

\* C19: Package.cleanup, invoked in any state (before extract, after a
\* successful or a failed extract, after an earlier cleanup), does not raise,
\* leaves no workspace of the package on disk, and invoked a second time does
\* not raise and changes nothing.
C19_CleanupIdempotent ==
    LET once == Cleanup(package, tmp)
    IN /\ CleanupOutcome(package, tmp) = "ok"
       /\ package.temp_dir \notin once
       /\ CleanupOutcome(package, once) = "ok"
       /\ Cleanup(package, once) = once

\* cleanup has run after a failed extract and is about to be invoked again
C19_Witness ==
    /\ pc = "returned"
    /\ Len(steps) = 1
    /\ ~steps[1].ok
    /\ package.temp_dir # 0
    /\ tmp = {}

\* C20: every started run eventually emits a terminal signal, for any batch
\* and any pattern of step failures, as long as every step terminates and the
\* thread is left running.
C20_RunTerminates == <>Terminated

\* run has emitted its signal after a batch in which every package failed
C20_Witness ==
    /\ pc = "done"
    /\ total = MaxBatch
    /\ success = 0
    /\ Len(signals) = 1

\* the name ends in .apg after a stem that is not empty
EndsInApg(name) ==
    /\ Len(name) > Len(Apg)
    /\ SubSeq(name, Len(name) - Len(Apg) + 1, Len(name)) = Apg

\* the command-line paths that exist, are regular files and have the suffix
\* .apg, in command-line order
ValidPaths ==
    SelectSeq(argv, LAMBDA n : Stat(files[n]) = "file" /\ EndsInApg(n))

\* the process may not install: it is not root or no path is valid
MayNotInstall == euid # 0 \/ ValidPaths = <<>>

\* a worker is started only as root and on the non-empty batch of valid paths
StartedOnlyValid ==
    /\ started # <<>> => (euid = 0 /\ ValidPaths # <<>>)
    /\ \A k \in 1..Len(started) : started[k].packages = ValidPaths
    /\ MayNotInstall => (started = <<>> /\ mainpc # "exec")

\* C21 (amended): a worker is only ever started when the process runs as root
\* and with the non-empty batch that is the order-preserving subsequence of the
\* command-line paths that exist, are regular files and have the suffix .apg;
\* if the process is not root or no path is valid, main returns 1, or 130 when
\* it is interrupted from the keyboard before it gets there, and nothing is
\* started.
C21_WorkerOnlyForRootAndValidBatch ==
    /\ StartedOnlyValid
    /\ (MayNotInstall /\ mainpc = "exited") => returned \in {"1", "130"}
    /\ returned = "130" => started = <<>>

\* a worker was started on the one valid path of two given
C21_Witness ==
    /\ started # <<>>
    /\ Len(argv) = 2
    /\ started[1].packages = <<argv[2]>>
    /\ Stat(files[argv[1]]) = "dir"

\* C21 as stated: a worker is only started as root and on the non-empty batch
\* of valid paths; if the process is not root or no path is valid, main
\* returns 1 and nothing is started.
C21_ReturnsOneWhenNotRootOrNoPackage ==
    /\ StartedOnlyValid
    /\ (MayNotInstall /\ mainpc = "exited") => returned = "1"

====
